---- MODULE Spec2Model ----
(***************************************************************************)
(* Model of anthropic/lib/vertex/_client.py: the request rewriter          *)
(* (_prepare_options) and the credential resolver (_ensure_access_token)   *)
(* of AnthropicVertex / AsyncAnthropicVertex.                              *)
(*                                                                         *)
(* Python values are tagged records [t, v]; v is always the text that an   *)
(* f-string renders for the value, so formatting and truthiness are        *)
(* computed as Python computes them.  Python objects that are mutated in   *)
(* place (request options, dict bodies, credential handles) live in heaps  *)
(* and are referred to by address, so aliasing is visible.                 *)
(***************************************************************************)
EXTENDS Integers, Sequences, FiniteSets, TLC

VARIABLES
    options,         \* heap of FinalRequestOptions objects, by address
    dicts,           \* heap of dict objects (json bodies), by address
    inp,             \* address in options of the caller's request object
    pre,             \* the caller's request as it was before the rewrite
    out,             \* what the last _prepare_options call did
    project_id,      \* client.project_id
    region,          \* client.region
    access_token,    \* client.access_token
    credentials,     \* client.credentials: 0 for None, else an address in creds
    creds,           \* heap of credential handles: [token, expired]
    ctor,            \* the arguments and environment the client was constructed with
    loader_project,  \* the project id load_auth resolves in this environment
    loader_calls,    \* invocations of load_auth so far
    loader_fails,    \* invocations of load_auth that raised
    refresher_calls, \* invocations of refresh_auth so far
    refresher_fails, \* invocations of refresh_auth that raised
    ecalls,          \* calls of _ensure_access_token so far
    last,            \* what the last _ensure_access_token call did
    call,            \* the API call in progress: [pc, auth, hdr, err, n, events]
    again,           \* what _prepare_options did when handed its own output
    status_code,     \* response.status_code handed to _make_status_error
    status_error,    \* the class of the error _make_status_error returned
    mode,            \* how overlapping calls are scheduled: "threads" or "tasks"
    tasks,           \* the overlapping _ensure_access_token calls in progress
    aclient          \* an AsyncAnthropicVertex client of the same configuration

rewriteVars == <<options, dicts, inp, pre, out>>
clientVars == <<project_id, region, access_token, credentials, creds, ctor,
                loader_project, loader_calls, loader_fails, refresher_calls,
                refresher_fails, ecalls,
                last, call>>
clientVarsButCall == <<project_id, region, access_token, credentials, creds,
                       ctor, loader_project, loader_calls, loader_fails,
                       refresher_calls, refresher_fails, ecalls, last>>
vars == <<options, dicts, inp, pre, out, project_id, region, access_token, credentials,
          creds, ctor, loader_project, loader_calls, loader_fails,
          refresher_calls, refresher_fails, ecalls, last, call,
          again, status_code, status_error, mode, tasks, aclient>>
auxVars == <<again, status_code, status_error, mode, tasks, aclient>>

----------------------------------------------------------------------------
(* Python values *)

PyNone == [t |-> "none", v |-> "None"]
PyTrue == [t |-> "bool", v |-> "True"]
PyFalse == [t |-> "bool", v |-> "False"]
PyStr(s) == [t |-> "str", v |-> s]
PyInt(s) == [t |-> "int", v |-> s]
NOT_GIVEN == [t |-> "not_given", v |-> "NOT_GIVEN"]

\* is_given(x)
is_given(x) == x.t # "not_given"

\* bool(x)
Truthy(x) ==
    CASE x.t = "none" -> FALSE
      [] x.t = "bool" -> x.v = "True"
      [] x.t = "str" -> x.v # ""
      [] x.t = "int" -> x.v # "0"
      [] OTHER -> TRUE

\* f"{x}"
Format(x) == x.v

\* s.startswith(p)
StartsWith(s, p) == Len(s) >= Len(p) /\ SubSeq(s, 1, Len(p)) = p

DEFAULT_VERSION == "vertex-2023-10-16"

----------------------------------------------------------------------------
(* dict operations used by the rewriter; a dict is a function from its keys *)

\* d[k] = v
SetItem(d, k, v) == [x \in DOMAIN d \cup {k} |-> IF x = k THEN v ELSE d[x]]

\* d.setdefault(k, v)
SetDefault(d, k, v) == IF k \in DOMAIN d THEN d ELSE SetItem(d, k, v)

\* d after d.pop(k), k a key of d
Pop(d, k) == [x \in DOMAIN d \ {k} |-> d[x]]

\* d.get(k, default)
Get(d, k, default) == IF k \in DOMAIN d THEN d[k] ELSE default

\* json_data is a reference to a dict on the heap, or a value that is no dict
DictRef(a) == [t |-> "dict", ref |-> a]
NoDict(tag) == [t |-> tag, ref |-> 0]

\* is_dict(x)
is_dict(x) == x.t = "dict"

----------------------------------------------------------------------------
(* _prepare_options: the heap state threaded through the function body is   *)
(* [options, dicts, ref, err]: the two heaps, the address of the local      *)
(* `options` object and the exception raised so far ("" when none).         *)

CreateUrls == {"/v1/messages", "/v1/messages?beta=true"}
CountUrls == {"/v1/messages/count_tokens", "/v1/messages/count_tokens?beta=true"}
BatchesPrefix == "/v1/messages/batches"

ErrProjectId == "RuntimeError: No project_id was given"
ErrNotDict == "RuntimeError: Expected json data to be a dictionary"
ErrKeyModel == "KeyError: model"
ErrBatches == "AnthropicError: The Batch API is not supported"

\* model_copy(input_options, deep=False): the copy shares the body dict
ShallowCopy(opts, dcts, a) ==
    [options |-> Append(opts, opts[a]), dicts |-> dcts,
     ref |-> Len(opts) + 1, err |-> ""]

\* model_copy(input_options, deep=True)
ModelCopy(opts, dcts, a) ==
    LET o == opts[a] IN
    IF is_dict(o.json_data)
    THEN [options |-> Append(opts, [o EXCEPT !.json_data = DictRef(Len(dcts) + 1)]),
          dicts |-> Append(dcts, dcts[o.json_data.ref]),
          ref |-> Len(opts) + 1, err |-> ""]
    ELSE [options |-> Append(opts, o), dicts |-> dcts,
          ref |-> Len(opts) + 1, err |-> ""]

\* mutant of StampVersion: the version is assigned, not defaulted
StampVersionAlways(s) ==
    LET o == s.options[s.ref] IN
    IF is_dict(o.json_data)
    THEN [s EXCEPT !.dicts[o.json_data.ref] =
                       SetItem(@, "anthropic_version", PyStr(DEFAULT_VERSION))]
    ELSE s

\* if is_dict(options.json_data): options.json_data.setdefault(...)
StampVersion(s) ==
    LET o == s.options[s.ref] IN
    IF is_dict(o.json_data)
    THEN [s EXCEPT !.dicts[o.json_data.ref] =
                       SetDefault(@, "anthropic_version", PyStr(DEFAULT_VERSION))]
    ELSE s

\* mutant of Specifier: the stream flag is ignored
SpecifierNoStream(stream) == "rawPredict"

\* "streamRawPredict" if stream else "rawPredict"
Specifier(stream) == IF Truthy(stream) THEN "streamRawPredict" ELSE "rawPredict"

\* f"/projects/{project_id}/locations/{region}/publishers/anthropic/models/{model}:{specifier}"
ModelUrl(pid, reg, model, specifier) ==
    "/projects/" \o Format(pid) \o "/locations/" \o reg
        \o "/publishers/anthropic/models/" \o model \o ":" \o specifier

\* mutant of RewriteCreate: the body is checked before the project id
RewriteCreateBodyFirst(s, pid, reg) ==
    LET o == s.options[s.ref] IN
    IF s.err # "" \/ ~(o.url \in CreateUrls /\ o.method = "post") THEN s
    ELSE IF ~is_dict(o.json_data) THEN [s EXCEPT !.err = ErrNotDict]
    ELSE IF "model" \notin DOMAIN s.dicts[o.json_data.ref]
         THEN [s EXCEPT !.err = ErrKeyModel]
    ELSE IF pid = PyNone THEN [s EXCEPT !.err = ErrProjectId]
    ELSE LET d == s.dicts[o.json_data.ref]
             stream == Get(Pop(d, "model"), "stream", PyFalse)
         IN [s EXCEPT !.dicts[o.json_data.ref] = Pop(d, "model"),
                      !.options[s.ref].url =
                          ModelUrl(pid, reg, Format(d["model"]), Specifier(stream))]

\* mutant of RewriteCreate: the model is popped but the url is not replaced
RewriteCreateKeepsUrl(s, pid, reg) ==
    LET o == s.options[s.ref] IN
    IF s.err # "" \/ ~(o.url \in CreateUrls /\ o.method = "post") THEN s
    ELSE IF pid = PyNone THEN [s EXCEPT !.err = ErrProjectId]
    ELSE IF ~is_dict(o.json_data) THEN [s EXCEPT !.err = ErrNotDict]
    ELSE IF "model" \notin DOMAIN s.dicts[o.json_data.ref]
         THEN [s EXCEPT !.err = ErrKeyModel]
    ELSE [s EXCEPT !.dicts[o.json_data.ref] = Pop(@, "model")]

\* the block `if options.url in {"/v1/messages", ...} and options.method == "post":`
RewriteCreate(s, pid, reg) ==
    LET o == s.options[s.ref] IN
    IF s.err # "" \/ ~(o.url \in CreateUrls /\ o.method = "post") THEN s
    ELSE IF pid = PyNone THEN [s EXCEPT !.err = ErrProjectId]
    ELSE IF ~is_dict(o.json_data) THEN [s EXCEPT !.err = ErrNotDict]
    ELSE IF "model" \notin DOMAIN s.dicts[o.json_data.ref]
         THEN [s EXCEPT !.err = ErrKeyModel]
    ELSE LET d == s.dicts[o.json_data.ref]
             stream == Get(Pop(d, "model"), "stream", PyFalse)
         IN [s EXCEPT !.dicts[o.json_data.ref] = Pop(d, "model"),
                      !.options[s.ref].url =
                          ModelUrl(pid, reg, Format(d["model"]), Specifier(stream))]

\* mutant of RewriteCount: `model` is moved out of the body as for create
RewriteCountPopsModel(s, pid, reg) ==
    LET o == s.options[s.ref] IN
    IF s.err # "" \/ ~(o.url \in CountUrls /\ o.method = "post") THEN s
    ELSE IF pid = PyNone THEN [s EXCEPT !.err = ErrProjectId]
    ELSE IF is_dict(o.json_data)
         THEN [s EXCEPT !.dicts[o.json_data.ref] = Pop(@, "model"),
                        !.options[s.ref].url =
                            ModelUrl(pid, reg, "count-tokens", "rawPredict")]
    ELSE [s EXCEPT !.options[s.ref].url =
                       ModelUrl(pid, reg, "count-tokens", "rawPredict")]

\* the block `if options.url in {"/v1/messages/count_tokens", ...} and options.method == "post":`
RewriteCount(s, pid, reg) ==
    LET o == s.options[s.ref] IN
    IF s.err # "" \/ ~(o.url \in CountUrls /\ o.method = "post") THEN s
    ELSE IF pid = PyNone THEN [s EXCEPT !.err = ErrProjectId]
    ELSE [s EXCEPT !.options[s.ref].url =
                       ModelUrl(pid, reg, "count-tokens", "rawPredict")]

\* mutant of BatchesGuard: only the batches collection itself is refused
BatchesGuardExact(s) ==
    IF s.err = "" /\ s.options[s.ref].url = BatchesPrefix
    THEN [s EXCEPT !.err = ErrBatches]
    ELSE s

\* if options.url.startswith("/v1/messages/batches"): raise AnthropicError
BatchesGuard(s) ==
    IF s.err = "" /\ StartsWith(s.options[s.ref].url, BatchesPrefix)
    THEN [s EXCEPT !.err = ErrBatches]
    ELSE s

\* _prepare_options(input_options, project_id=pid, region=reg)
PrepareOptionsFn(opts, dcts, a, pid, reg) ==
    BatchesGuard(
        RewriteCount(
            RewriteCreate(StampVersion(ModelCopy(opts, dcts, a)), pid, reg),
            pid, reg))

----------------------------------------------------------------------------
(* The rewriter applied to one request: the inputs the resource layer can   *)
(* hand to _prepare_options, and the call itself.                           *)

Methods == {"post", "get", "delete"}
Urls == CreateUrls \cup CountUrls \cup
        {"/v1/messages/batches", "/v1/messages/batches?beta=true",
         "/v1/messages/batches/b1/cancel", "/v1/messages/batche", "/v1/models"}
ModelValues == {PyStr("claude-3"), PyNone}
StreamValues == {PyTrue, PyFalse, PyNone, PyStr("false"), PyInt("0"), PyInt("1")}
VersionValues == {PyStr("custom-2024"), PyNone}
ProjectIds == {PyNone, PyStr(""), PyStr("p")}
Regions == {"us-central1", "global"}

\* marks a key the body does not have
Absent == [t |-> "absent", v |-> ""]

\* the dict bodies: every choice of present keys and of their values
DictOf(m, st, ver) ==
    [k \in {x \in {"model"} : m # Absent} \cup {x \in {"stream"} : st # Absent}
           \cup {x \in {"anthropic_version"} : ver # Absent} \cup {"max_tokens"} |->
        CASE k = "model" -> m
          [] k = "stream" -> st
          [] k = "anthropic_version" -> ver
          [] OTHER -> PyInt("16")]
Bodies == {DictOf(m, st, ver) : m \in ModelValues \cup {Absent},
                                st \in StreamValues \cup {Absent},
                                ver \in VersionValues \cup {Absent}}
NonDictTags == {"none", "list"}

\* the request at address a, by value: what the caller can observe of it
View(opts, dcts, a) ==
    [method |-> opts[a].method, url |-> opts[a].url, kind |-> opts[a].json_data.t,
     body |-> IF is_dict(opts[a].json_data) THEN dcts[opts[a].json_data.ref] ELSE <<>>]

NoResult == [kind |-> "none", v |-> "", seen |-> <<>>]
IdleCall == [pc |-> "idle", auth |-> PyNone, hdr |-> PyNone, err |-> "", n |-> 0,
             events |-> <<>>]
NoOutcome == [kind |-> "none", ref |-> 0, err |-> ""]
\* the parts of the state a specification does not exercise
AuxIdle ==
    /\ again = NoOutcome
    /\ status_code = 0
    /\ status_error = ""
    /\ mode = "none"
    /\ tasks = <<>>
    /\ aclient = <<>>

Outcome(s) ==
    IF s.err = "" THEN [kind |-> "returned", ref |-> s.ref, err |-> ""]
    ELSE [kind |-> "raised", ref |-> 0, err |-> s.err]

InitRewrite ==
    /\ project_id \in ProjectIds
    /\ region \in Regions
    /\ \E m \in Methods, u \in Urls :
          \/ \E b \in Bodies :
                /\ options = <<[method |-> m, url |-> u, json_data |-> DictRef(1)]>>
                /\ dicts = <<b>>
          \/ \E t \in NonDictTags :
                /\ options = <<[method |-> m, url |-> u, json_data |-> NoDict(t)]>>
                /\ dicts = <<>>
    /\ inp = 1
    /\ pre = View(options, dicts, 1)
    /\ out = NoOutcome
    /\ access_token = PyNone
    /\ credentials = 0
    /\ creds = <<>>
    /\ ctor = [project_id |-> IF project_id = PyNone THEN NOT_GIVEN ELSE project_id,
               env_project_id |-> PyNone, credentials |-> 0]
    /\ loader_project = PyNone
    /\ loader_calls = 0
    /\ loader_fails = 0
    /\ refresher_calls = 0
    /\ refresher_fails = 0
    /\ ecalls = 0
    /\ last = NoResult
    /\ call = IdleCall
    /\ AuxIdle

\* one call _prepare_options(input_options, project_id=..., region=...)
PrepareOptionsCall ==
    /\ out.kind = "none"
    /\ LET s == PrepareOptionsFn(options, dicts, inp, project_id, region) IN
          /\ options' = s.options
          /\ dicts' = s.dicts
          /\ out' = Outcome(s)
    /\ UNCHANGED <<inp, pre>>
    /\ UNCHANGED clientVars
    /\ UNCHANGED auxVars

\* the returned options are handed to _prepare_options once more, as on a retry
PrepareOptionsAgain ==
    /\ out.kind = "returned"
    /\ again.kind = "none"
    /\ LET s == PrepareOptionsFn(options, dicts, out.ref, project_id, region) IN
          /\ options' = s.options
          /\ dicts' = s.dicts
          /\ again' = Outcome(s)
    /\ UNCHANGED <<inp, pre, out>>
    /\ UNCHANGED clientVars
    /\ UNCHANGED <<status_code, status_error, mode, tasks, aclient>>

NextRewrite ==
    \/ PrepareOptionsCall
    \/ PrepareOptionsAgain

SpecRewrite == InitRewrite /\ [][NextRewrite]_vars

----------------------------------------------------------------------------
(* Properties of the rewriter, under SpecRewrite *)

IsCreate(r) == r.url \in {"/v1/messages", "/v1/messages?beta=true"} /\ r.method = "post"
IsCount(r) ==
    r.url \in {"/v1/messages/count_tokens", "/v1/messages/count_tokens?beta=true"}
        /\ r.method = "post"
Called == out.kind # "none"
Returned == out.kind = "returned"
Result == View(options, dicts, out.ref)
StreamTruthy(b) == "stream" \in DOMAIN b /\ Truthy(b["stream"])

\* C1: a POST to the create-message endpoint with a project id and a dict body
\* holding `model` returns the url
\* /projects/{project_id}/locations/{region}/publishers/anthropic/models/{model}:{verb},
\* verb streamRawPredict when `stream` is truthy and rawPredict otherwise
\* (absent included), and a body without `model`.
C1_CreateRewritten ==
    (Called /\ IsCreate(pre) /\ project_id # PyNone /\ pre.kind = "dict"
        /\ "model" \in DOMAIN pre.body)
    => /\ Returned
       /\ Result.url = "/projects/" \o project_id.v \o "/locations/" \o region
                         \o "/publishers/anthropic/models/" \o pre.body["model"].v
                         \o (IF StreamTruthy(pre.body) THEN ":streamRawPredict"
                                                       ELSE ":rawPredict")
       /\ Result.kind = "dict"
       /\ "model" \notin DOMAIN Result.body

C1_Witness ==
    /\ Returned /\ IsCreate(pre) /\ StreamTruthy(pre.body)
    /\ Result.url = "/projects/p/locations/us-central1/publishers/anthropic/models/claude-3:streamRawPredict"

\* C6: a POST to the create-message endpoint without a project id raises the
\* missing-project-id error whatever the body is (no dict, no `model`), and
\* returns no request.
C6_ProjectIdErrorFirst ==
    (Called /\ IsCreate(pre) /\ project_id = PyNone)
    => out = [kind |-> "raised", ref |-> 0, err |-> ErrProjectId]

C6_Witness ==
    /\ out.kind = "raised" /\ out.err = ErrProjectId /\ IsCreate(pre)
    /\ pre.kind # "dict"

\* C7 as stated: a POST to the count-tokens endpoint with a project id returns
\* the count-tokens:rawPredict url and a body equal to the input body.
C7_CountBodyUntouched ==
    (Called /\ IsCount(pre) /\ project_id # PyNone)
    => /\ Returned
       /\ Result.url = "/projects/" \o project_id.v \o "/locations/" \o region
                         \o "/publishers/anthropic/models/count-tokens:rawPredict"
       /\ Result.kind = pre.kind
       /\ Result.body = pre.body

\* C7 amended: a POST to the count-tokens endpoint with a project id returns
\* the count-tokens:rawPredict url; every key of the input body, `model`
\* included, is kept with its value, and the only key the returned body can
\* have gained is `anthropic_version`, set to the default when it was absent.
C7_CountRewritten ==
    (Called /\ IsCount(pre) /\ project_id # PyNone)
    => /\ Returned
       /\ Result.url = "/projects/" \o project_id.v \o "/locations/" \o region
                         \o "/publishers/anthropic/models/count-tokens:rawPredict"
       /\ Result.kind = pre.kind
       /\ \A k \in DOMAIN pre.body : k \in DOMAIN Result.body /\ Result.body[k] = pre.body[k]
       /\ pre.kind # "dict" => Result.body = pre.body
       /\ pre.kind = "dict" =>
             /\ DOMAIN Result.body = DOMAIN pre.body \cup {"anthropic_version"}
             /\ "anthropic_version" \notin DOMAIN pre.body =>
                    Result.body["anthropic_version"] = PyStr("vertex-2023-10-16")

C7_Witness ==
    /\ Returned /\ IsCount(pre) /\ pre.kind = "dict"
    /\ "model" \in DOMAIN Result.body
    /\ "anthropic_version" \notin DOMAIN pre.body
    /\ Result.url = "/projects/p/locations/global/publishers/anthropic/models/count-tokens:rawPredict"

\* C8: a request whose url begins with /v1/messages/batches makes the rewrite
\* raise the unsupported-capability error, for every method, body and
\* project id; no request is returned.
C8_BatchesRefused ==
    (Called /\ Len(pre.url) >= 20 /\ SubSeq(pre.url, 1, 20) = "/v1/messages/batches")
    => out = [kind |-> "raised", ref |-> 0, err |-> ErrBatches]

C8_Witness ==
    /\ out.kind = "raised" /\ out.err = ErrBatches
    /\ pre.url = "/v1/messages/batches/b1/cancel" /\ pre.method = "delete"
    /\ pre.kind # "dict" /\ project_id = PyNone

\* C9: a returned request whose body is a dict carries the default
\* anthropic_version when the input body had none, and the caller's value
\* unchanged when it had one.
C9_VersionStamped ==
    (Returned /\ pre.kind = "dict")
    => /\ Result.kind = "dict"
       /\ "anthropic_version" \in DOMAIN Result.body
       /\ Result.body["anthropic_version"] =
             IF "anthropic_version" \in DOMAIN pre.body
             THEN pre.body["anthropic_version"]
             ELSE PyStr("vertex-2023-10-16")

C9_Witness ==
    /\ Returned /\ IsCreate(pre) /\ pre.kind = "dict"
    /\ "anthropic_version" \in DOMAIN pre.body
    /\ Result.body["anthropic_version"] = PyStr("custom-2024")

\* C10: after a call of the rewrite, returned or raised, the caller's request
\* object has the method, url and body it had before the call.
C10_InputNotMutated ==
    Called => View(options, dicts, inp) = pre

C10_Witness ==
    /\ Returned /\ IsCreate(pre) /\ pre.kind = "dict"
    /\ "anthropic_version" \notin DOMAIN pre.body
    /\ "model" \notin DOMAIN Result.body
    /\ "anthropic_version" \in DOMAIN Result.body
    /\ options[inp].json_data.ref # options[out.ref].json_data.ref

\* the request _prepare_options returned when handed its own output
ResultAgain == View(options, dicts, again.ref)

\* C19: the rewrite is idempotent on its own output: whenever rewrite(r)
\* returns, rewrite(rewrite(r)) returns too and equals rewrite(r) in method,
\* url and body.
C19_RewriteIdempotent ==
    again.kind # "none" => /\ again.kind = "returned"
                           /\ ResultAgain = Result
C19_Witness ==
    /\ again.kind = "returned"
    /\ IsCreate(pre)
    /\ Result.url # pre.url
    /\ "model" \notin DOMAIN Result.body
    /\ ResultAgain = Result
    /\ again.ref # out.ref

----------------------------------------------------------------------------
(* The credential resolver.  load_auth and refresh_auth are collaborators   *)
(* outside this file: what one invocation of them does is chosen by the     *)
(* environment, e = [load_ok, load_cred, refresh_ok, refresh_token].        *)

MaxCalls == 3
MaxRequests == 2

ErrLoader == "load_auth raised"
ErrRefresh == "refresh_auth raised"
ErrNoToken == "RuntimeError: Could not resolve API token from the environment"

Tokens == {PyNone, PyStr("t1")}
Handles == [token : {PyNone, PyStr("t0")}, expired : BOOLEAN]
EnvChoices == [load_ok : BOOLEAN, load_cred : Handles,
               refresh_ok : BOOLEAN, refresh_token : Tokens]

\* BaseVertexClient.project_id, the cached property read from the environment
ProjectIdProperty(env) == IF Truthy(env) THEN env ELSE PyNone

\* __init__: `if is_given(project_id): self.project_id = project_id`
InitialProjectId(arg, env) == IF is_given(arg) THEN arg ELSE ProjectIdProperty(env)

\* load_auth(project_id=pid): a new handle and the project id resolved
LoadAuth(c, e) ==
    [c EXCEPT !.creds = Append(@, e.load_cred), !.credentials = Len(c.creds) + 1]

\* refresh_auth(credentials): the handle's token and expiry are set in place
RefreshAuth(c, e) ==
    [c EXCEPT !.creds[c.credentials] = [token |-> e.refresh_token, expired |-> FALSE]]

\* mutant of HasStaticToken: `if self.access_token:`
HasStaticTokenTruthy(c) == Truthy(c.access_token)

\* if self.access_token is not None
HasStaticToken(c) == c.access_token # PyNone

\* mutant of NeedsLoad: an expired handle is loaded anew
NeedsLoadOrExpired(c) == c.credentials = 0 \/ c.creds[c.credentials].expired

\* if not self.credentials
NeedsLoad(c) == c.credentials = 0

\* mutant of AdoptProject: the loader's project id is always taken
AdoptProjectAlways(pid, loaded) == loaded

\* if not self.project_id: self.project_id = project_id
AdoptProject(pid, loaded) == IF ~Truthy(pid) THEN loaded ELSE pid

\* mutant of NeedsRefresh: a handle without a token is not refreshed
NeedsRefreshExpiredOnly(c) == c.creds[c.credentials].expired

\* if self.credentials.expired or not self.credentials.token
NeedsRefresh(c) ==
    c.creds[c.credentials].expired \/ ~Truthy(c.creds[c.credentials].token)

\* how a call ends: the client fields it leaves, what it returned or raised,
\* the handle as line 164 saw it (<<>> when the call did not get there), and
\* the collaborator invocations it made: <<loads, fails, refreshes, rfails>>
Done(c, kind, v, seen, n) ==
    [client |-> c, result |-> [kind |-> kind, v |-> v, seen |-> seen],
     loads |-> n[1], fails |-> n[2], refreshes |-> n[3], rfails |-> n[4]]

\* mutant of RefreshAndReturn: the token is read before the refresh
RefreshAndReturnStale(c, e, loads) ==
    LET seen == <<c.creds[c.credentials]>> IN
    IF NeedsRefresh(c) /\ ~e.refresh_ok
    THEN Done(c, "raised", ErrRefresh, seen, <<loads, 0, 1, 1>>)
    ELSE LET r == IF NeedsRefresh(c) THEN RefreshAuth(c, e) ELSE c
             n == IF NeedsRefresh(c) THEN 1 ELSE 0
             tok == c.creds[c.credentials].token
         IN IF ~Truthy(tok) THEN Done(r, "raised", ErrNoToken, seen, <<loads, 0, n, 0>>)
            ELSE Done(r, "returned", tok.v, seen, <<loads, 0, n, 0>>)

\* the tail of _ensure_access_token, from the expiry check on
RefreshAndReturn(c, e, loads) ==
    LET seen == <<c.creds[c.credentials]>> IN
    IF NeedsRefresh(c) /\ ~e.refresh_ok
    THEN Done(c, "raised", ErrRefresh, seen, <<loads, 0, 1, 1>>)
    ELSE LET r == IF NeedsRefresh(c) THEN RefreshAuth(c, e) ELSE c
             n == IF NeedsRefresh(c) THEN 1 ELSE 0
             tok == r.creds[r.credentials].token
         IN IF ~Truthy(tok) THEN Done(r, "raised", ErrNoToken, seen, <<loads, 0, n, 0>>)
            ELSE Done(r, "returned", tok.v, seen, <<loads, 0, n, 0>>)

\* AnthropicVertex._ensure_access_token, one whole call on the client fields
\* c = [access_token, credentials, creds, project_id]
EnsureAccessToken(c, e, lp) ==
    IF HasStaticToken(c) THEN Done(c, "returned", c.access_token.v, <<>>, <<0, 0, 0, 0>>)
    ELSE IF NeedsLoad(c)
         THEN IF ~e.load_ok THEN Done(c, "raised", ErrLoader, <<>>, <<1, 1, 0, 0>>)
              ELSE RefreshAndReturn(
                       [LoadAuth(c, e) EXCEPT !.project_id = AdoptProject(@, lp)], e, 1)
         ELSE RefreshAndReturn(c, e, 0)

\* the environment's choices that differ only in an outcome the call on c never
\* asks for are one choice: the unused outcomes are pinned
NoChoice == [load_ok |-> TRUE, load_cred |-> [token |-> PyNone, expired |-> FALSE],
             refresh_ok |-> TRUE, refresh_token |-> PyNone]
EnvFor(c) ==
    {e \in EnvChoices :
        LET loads == ~HasStaticToken(c) /\ NeedsLoad(c)
            held == IF loads THEN LoadAuth(c, e) ELSE c
            refreshes == /\ ~HasStaticToken(c)
                         /\ e.load_ok
                         /\ NeedsRefresh(held)
        IN /\ ~loads => e.load_ok = NoChoice.load_ok
           /\ ~(loads /\ e.load_ok) => e.load_cred = NoChoice.load_cred
           /\ ~refreshes => e.refresh_ok = NoChoice.refresh_ok
           /\ ~(refreshes /\ e.refresh_ok) => e.refresh_token = NoChoice.refresh_token}

ClientFields ==
    [access_token |-> access_token, credentials |-> credentials, creds |-> creds,
     project_id |-> project_id]

\* the effect of one _ensure_access_token call on the client and the counters
EnsureEffect(r) ==
    /\ credentials' = r.client.credentials
    /\ creds' = r.client.creds
    /\ project_id' = r.client.project_id
    /\ loader_calls' = loader_calls + r.loads
    /\ loader_fails' = loader_fails + r.fails
    /\ refresher_calls' = refresher_calls + r.refreshes
    /\ refresher_fails' = refresher_fails + r.rfails
    /\ ecalls' = ecalls + 1
    /\ last' = r.result
    /\ UNCHANGED <<access_token, region, ctor, loader_project>>

----------------------------------------------------------------------------
(* The client: construction, direct token resolution and the API call path  *)
(* request -> _prepare_options -> build -> _prepare_request -> send.         *)

ApiRequests ==
    {<<"post", "/v1/messages", "dict">>, <<"post", "/v1/messages/count_tokens", "dict">>,
     <<"get", "/v1/messages/batches", "none">>}
ApiBody == DictOf(PyStr("claude-3"), PyTrue, Absent)
\* request.headers.get("Authorization") as the request is built: None when the
\* header is absent, else the value the caller supplied
CallerAuth == {PyNone, PyStr(""), PyStr("Bearer caller")}

InitClient ==
    /\ region \in {"us-central1"}
    /\ ctor \in [project_id : {NOT_GIVEN, PyStr(""), PyStr("p")},
                 env_project_id : {PyNone, PyStr(""), PyStr("pe")},
                 credentials : {0, 1}]
    \* the environment variable is read only when no project_id argument is given
    /\ is_given(ctor.project_id) => ctor.env_project_id = PyNone
    /\ project_id = InitialProjectId(ctor.project_id, ctor.env_project_id)
    /\ access_token \in {PyNone, PyStr(""), PyStr("static")}
    /\ credentials = ctor.credentials
    /\ creds \in IF ctor.credentials = 0 THEN {<<>>} ELSE {<<h>> : h \in Handles}
    /\ loader_project \in {PyNone, PyStr("pl")}
    /\ loader_calls = 0
    /\ loader_fails = 0
    /\ refresher_calls = 0
    /\ refresher_fails = 0
    /\ ecalls = 0
    /\ last = NoResult
    /\ call = IdleCall
    /\ options = <<>>
    /\ dicts = <<>>
    /\ inp = 0
    /\ pre = <<>>
    /\ out = NoOutcome

Init ==
    /\ InitClient
    /\ AuxIdle

InCall == call.pc \in {"built", "ready"}

\* a call of client._ensure_access_token() outside any API call
EnsureAccessTokenCall ==
    /\ ~InCall
    /\ ecalls < MaxCalls
    /\ \E e \in EnvFor(ClientFields) :
          EnsureEffect(EnsureAccessToken(ClientFields, e, loader_project))
    /\ UNCHANGED <<call, options, dicts, inp, pre, out>>
    /\ UNCHANGED auxVars

\* the base client starts an API call: the request options are built and
\* handed to AnthropicVertex._prepare_options
BuildRequest ==
    /\ ~InCall
    /\ ecalls < MaxCalls
    /\ call.n < MaxRequests
    /\ \E rq \in ApiRequests, hdr \in CallerAuth :
          LET o == [method |-> rq[1], url |-> rq[2],
                    json_data |-> IF rq[3] = "dict" THEN DictRef(1) ELSE NoDict(rq[3])]
              d == IF rq[3] = "dict" THEN <<ApiBody>> ELSE <<>>
              s == PrepareOptionsFn(<<o>>, d, 1, project_id, region)
          IN /\ inp' = 1
             /\ pre' = View(<<o>>, d, 1)
             /\ options' = s.options
             /\ dicts' = s.dicts
             /\ out' = Outcome(s)
             /\ call' = IF s.err = ""
                        THEN [pc |-> "built", auth |-> hdr, hdr |-> hdr, err |-> "",
                              n |-> call.n + 1, events |-> <<"rewrite">>]
                        ELSE [pc |-> "failed", auth |-> PyNone, hdr |-> hdr, err |-> s.err,
                              n |-> call.n + 1, events |-> <<"rewrite">>]
    /\ UNCHANGED clientVarsButCall
    /\ UNCHANGED auxVars

\* mutant of AlreadyAuthenticated: the hook always returns early
SkipsAuthentication(h) == TRUE

\* mutant of AlreadyAuthenticated: `if "Authorization" in request.headers`
HeaderPresent(h) == h # PyNone

\* mutant of AlreadyAuthenticated: the early return is missing
NeverAuthenticated(h) == FALSE

\* if request.headers.get("Authorization")
AlreadyAuthenticated(h) == Truthy(h)

\* f"Bearer {token}"
BearerHeader(tok) == PyStr("Bearer " \o tok)

\* AnthropicVertex._prepare_request, the hook run before every send
PrepareRequest ==
    /\ call.pc = "built"
    /\ IF AlreadyAuthenticated(call.auth)
       THEN /\ call' = [call EXCEPT !.pc = "ready"]
            /\ UNCHANGED clientVarsButCall
       ELSE \E e \in EnvFor(ClientFields) :
               LET r == EnsureAccessToken(ClientFields, e, loader_project) IN
               /\ EnsureEffect(r)
               /\ call' = IF r.result.kind = "returned"
                          THEN [call EXCEPT !.pc = "ready", !.auth = BearerHeader(r.result.v),
                                            !.events = Append(@, "auth")]
                          ELSE [call EXCEPT !.pc = "failed", !.err = r.result.v,
                                            !.events = Append(@, "auth")]
    /\ UNCHANGED rewriteVars
    /\ UNCHANGED auxVars

\* the base client writes the request to the wire
Send ==
    /\ call.pc = "ready"
    /\ call' = [call EXCEPT !.pc = "sent", !.events = Append(@, "send")]
    /\ UNCHANGED clientVarsButCall
    /\ UNCHANGED rewriteVars
    /\ UNCHANGED auxVars

\* time passes and the held credential reaches its expiry
CredentialExpires ==
    /\ credentials # 0
    /\ ~creds[credentials].expired
    /\ creds' = [creds EXCEPT ![credentials].expired = TRUE]
    /\ UNCHANGED <<project_id, region, access_token, credentials, ctor,
                   loader_project, loader_calls, loader_fails, refresher_calls,
                refresher_fails, ecalls,
                   last, call>>
    /\ UNCHANGED rewriteVars
    /\ UNCHANGED auxVars

Next ==
    \/ EnsureAccessTokenCall
    \/ BuildRequest
    \/ PrepareRequest
    \/ Send
    \/ CredentialExpires

Spec == Init /\ [][Next]_vars

----------------------------------------------------------------------------
(* Properties of the credential resolver and of the API call path, under Spec *)

\* C2: with a static access_token every _ensure_access_token call returns that
\* token, whatever the credential handle is, and neither load_auth nor
\* refresh_auth is ever invoked.
C2_StaticTokenOnly ==
    access_token # PyNone
    => /\ loader_calls = 0
       /\ refresher_calls = 0
       /\ last.kind # "none" => last.kind = "returned" /\ last.v = access_token.v

C2_Witness ==
    /\ access_token = PyStr("") /\ ecalls >= 2 /\ last.kind = "returned" /\ last.v = ""
    /\ credentials = 1 /\ creds[1].expired /\ creds[1].token = PyNone

\* C3 as stated: without a static token and with no handle given, load_auth
\* has been invoked exactly once after any number (>= 1) of calls; with a
\* handle given at construction it is never invoked.
C3_LoaderOnce ==
    access_token = PyNone
    => IF ctor.credentials = 0 THEN (ecalls >= 1 => loader_calls = 1)
       ELSE loader_calls = 0

\* C3 amended: without a static token and with no handle given, the first call
\* invokes load_auth exactly once; each later call invokes it exactly once as
\* long as every earlier load raised, and once a load has succeeded no later
\* call invokes it again; with a handle given at construction it is never
\* invoked.
C3_LoaderUntilLoaded ==
    access_token = PyNone
    => IF ctor.credentials = 0
       THEN /\ ecalls = 1 => loader_calls = 1
            /\ credentials = 0 => loader_calls = ecalls /\ loader_fails = ecalls
            /\ credentials # 0 => loader_calls = loader_fails + 1 /\ loader_calls <= ecalls
       ELSE loader_calls = 0

C3_Witness ==
    /\ access_token = PyNone /\ ctor.credentials = 0
    /\ ecalls = 3 /\ loader_calls = 2 /\ loader_fails = 1 /\ credentials # 0

\* C4 as stated: a project_id given at construction, whatever string it is, is
\* the client's project_id in every later state.
C4_ExplicitProjectKept ==
    is_given(ctor.project_id) => project_id = ctor.project_id

\* C4 amended: a non-empty project_id given at construction is the client's
\* project_id in every later state, whatever project id load_auth returns.
C4_NonEmptyProjectKept ==
    (is_given(ctor.project_id) /\ ctor.project_id.v # "") => project_id = ctor.project_id

C4_Witness ==
    /\ ctor.project_id = PyStr("p") /\ project_id = PyStr("p")
    /\ loader_project = PyStr("pl") /\ loader_calls = 1 /\ loader_fails = 0
    /\ credentials # 0

\* C5: on a client built without project_id, with none in the environment and
\* a loader that resolves project id p, a POST to the create-message or
\* count-tokens endpoint is rewritten with p and does not fail with the
\* missing-project-id error, the first call on the client included.
C5_LoaderProjectUsed ==
    (/\ ctor.project_id = NOT_GIVEN /\ ctor.env_project_id = PyNone
     /\ ctor.credentials = 0 /\ access_token = PyNone
     /\ loader_project = PyStr("pl")
     /\ call.pc # "idle" /\ pre.kind = "dict" /\ (IsCreate(pre) \/ IsCount(pre)))
    => /\ out.err # ErrProjectId
       /\ Returned
       /\ SubSeq(Result.url, 1, 23) = "/projects/pl/locations/"

HookRuns == call.pc = "built" /\ call'.pc # "built"

\* C11 as stated: when the request carries an Authorization header, whatever
\* its value, the pre-send hook leaves the header as it is and makes no
\* _ensure_access_token call.
C11_AnyHeaderKept ==
    [][(HookRuns /\ call.auth # PyNone)
       => /\ call'.auth = call.auth
          /\ UNCHANGED <<ecalls, loader_calls, refresher_calls>>]_vars

\* C11 amended: when the request carries a non-empty Authorization header the
\* pre-send hook leaves it as it is and makes no _ensure_access_token call
\* (no load_auth, no refresh_auth); a request whose header is absent or empty
\* gets one _ensure_access_token call and, when that returns,
\* "Bearer <token>" as its header.
C11_NonEmptyHeaderKept ==
    [][HookRuns
       => IF call.auth \notin {PyNone, PyStr("")}
          THEN /\ call' = [call EXCEPT !.pc = "ready"]
               /\ UNCHANGED <<ecalls, loader_calls, refresher_calls, credentials, creds>>
          ELSE /\ ecalls' = ecalls + 1
               /\ call'.pc = "ready" =>
                      last'.kind = "returned" /\ call'.auth = PyStr("Bearer " \o last'.v)
               /\ call'.pc # "ready" => call'.pc = "failed" /\ last'.kind = "raised"]_vars

C11_Witness ==
    /\ call.pc = "ready" /\ call.auth = PyStr("Bearer caller")
    /\ ecalls = 0 /\ access_token = PyNone /\ credentials = 0

Before(ev, a, b) ==
    \A i \in DOMAIN ev : ev[i] = b => \E j \in 1..(i - 1) : ev[j] = a

\* C12: within one API call the rewrite completes before token resolution is
\* attempted, and token resolution completes before the request is sent: a
\* request built without a usable Authorization header is never sent before
\* _ensure_access_token has returned for it.
C12_RewriteAuthSend ==
    /\ Before(call.events, "rewrite", "auth")
    /\ Before(call.events, "rewrite", "send")
    /\ \A i \in DOMAIN call.events : call.events[i] = "send" => i = Len(call.events)
    /\ (\E i \in DOMAIN call.events : call.events[i] = "auth") => out.kind = "returned"
    /\ ~Truthy(call.hdr) => Before(call.events, "auth", "send")
    /\ (call.pc = "sent" /\ ~Truthy(call.hdr)) =>
           \E t \in {"", "static", "t0", "t1"} : call.auth = PyStr("Bearer " \o t)

C12_Witness ==
    /\ call.events = <<"rewrite", "auth", "send">>
    /\ call.hdr = PyNone /\ call.auth = PyStr("Bearer t1") /\ IsCreate(pre)

\* C13: a request is sent only with a non-empty Authorization header and only
\* when neither the rewrite nor _ensure_access_token raised for its call; a
\* call in which either raised ends failed and is never sent.
C13_NoUnauthenticatedSend ==
    [][/\ call'.pc = "sent" =>
              /\ call'.auth.t = "str" /\ call'.auth.v # ""
              /\ call'.err = "" /\ out'.kind = "returned"
       /\ (call'.n # call.n /\ out'.kind = "raised") =>
              call'.pc = "failed" /\ call'.err = out'.err
       /\ (HookRuns /\ ecalls' # ecalls /\ last'.kind = "raised") =>
              call'.pc = "failed" /\ call'.err = last'.v
       /\ call.pc = "failed" =>
              /\ \A i \in DOMAIN call.events : call.events[i] # "send"
              /\ call'.n = call.n => call' = call]_vars

C13_Witness ==
    /\ call.pc = "failed" /\ call.err = ErrNoToken /\ call.hdr = PyStr("")
    /\ call.events = <<"rewrite", "auth">>

EnsureStep == ecalls' = ecalls + 1
HeldToken == IF credentials # 0 THEN creds[credentials].token ELSE PyNone
ResolvedOrNoToken ==
    IF HeldToken' \in {PyNone, PyStr("")}
    THEN last'.kind = "raised" /\ last'.v = ErrNoToken
    ELSE last'.kind = "returned" /\ last'.v = HeldToken'.v

\* C14 as stated: without a static token a call raises "Could not resolve API
\* token" exactly when the held credential carries no token after the call's
\* load and refresh steps, and in every other case returns the held
\* credential's token.
C14_TokenOrNoTokenError ==
    [][(EnsureStep /\ access_token = PyNone) => ResolvedOrNoToken]_vars

\* C14 amended: without a static token, a call in which neither load_auth nor
\* refresh_auth raises ends with "Could not resolve API token" exactly when
\* the held credential carries no token after the load and refresh steps, and
\* otherwise returns the held credential's token; a call in which load_auth
\* or refresh_auth raises ends with that exception.
C14_TokenOrError ==
    [][(EnsureStep /\ access_token = PyNone)
       => IF loader_fails' # loader_fails
          THEN last'.kind = "raised" /\ last'.v = ErrLoader /\ credentials' = 0
          ELSE IF refresher_fails' # refresher_fails
          THEN last'.kind = "raised" /\ last'.v = ErrRefresh
          ELSE ResolvedOrNoToken]_vars

C14_Witness ==
    /\ access_token = PyNone /\ last.kind = "raised" /\ last.v = ErrNoToken
    /\ loader_calls = 1 /\ loader_fails = 0 /\ refresher_calls = 1 /\ refresher_fails = 0
    /\ creds[credentials].token = PyNone

\* C18: without a static token every call that holds a credential (given,
\* loaded earlier or loaded by this call) checks it: refresh_auth is invoked in
\* the call if and only if the credential is then expired or has no token; a
\* call finding it unexpired with a token returns that token and invokes no
\* refresh; a credential that expired since the last call is refreshed.
C18_RefreshIffStale ==
    [][(EnsureStep /\ access_token = PyNone /\ loader_fails' = loader_fails)
       => /\ Len(last'.seen) = 1
          /\ credentials # 0 => last'.seen[1] = creds[credentials]
          /\ refresher_calls' \in {refresher_calls, refresher_calls + 1}
          /\ (refresher_calls' = refresher_calls + 1)
                <=> (last'.seen[1].expired \/ last'.seen[1].token \in {PyNone, PyStr("")})
          /\ (~last'.seen[1].expired /\ last'.seen[1].token \notin {PyNone, PyStr("")})
                => /\ last'.kind = "returned" /\ last'.v = last'.seen[1].token.v
                   /\ creds'[credentials'] = last'.seen[1]]_vars

C18_Witness ==
    /\ access_token = PyNone /\ ctor.credentials = 1 /\ loader_calls = 0
    /\ ecalls = 2 /\ refresher_calls = 1
    /\ last.seen = <<[token |-> PyStr("t0"), expired |-> TRUE]>>
    /\ last.kind = "returned" /\ last.v = "t1"

----------------------------------------------------------------------------
(* The status-to-error classification, BaseVertexClient._make_status_error. *)

MinStatus == 100
MaxStatus == 599
StatusCodes == MinStatus..MaxStatus

\* mutant of MakeStatusError: the >= 500 test comes before the 503 and 504 tests
MakeStatusErrorRangeFirst(code) ==
    IF code = 400 THEN "BadRequestError"
    ELSE IF code = 401 THEN "AuthenticationError"
    ELSE IF code = 403 THEN "PermissionDeniedError"
    ELSE IF code = 404 THEN "NotFoundError"
    ELSE IF code = 409 THEN "ConflictError"
    ELSE IF code = 422 THEN "UnprocessableEntityError"
    ELSE IF code = 429 THEN "RateLimitError"
    ELSE IF code >= 500 THEN "InternalServerError"
    ELSE IF code = 503 THEN "ServiceUnavailableError"
    ELSE IF code = 504 THEN "DeadlineExceededError"
    ELSE "APIStatusError"

\* _make_status_error(err_msg, body=..., response=...): the class of the error
\* returned for response.status_code = code
MakeStatusError(code) ==
    IF code = 400 THEN "BadRequestError"
    ELSE IF code = 401 THEN "AuthenticationError"
    ELSE IF code = 403 THEN "PermissionDeniedError"
    ELSE IF code = 404 THEN "NotFoundError"
    ELSE IF code = 409 THEN "ConflictError"
    ELSE IF code = 422 THEN "UnprocessableEntityError"
    ELSE IF code = 429 THEN "RateLimitError"
    ELSE IF code = 503 THEN "ServiceUnavailableError"
    ELSE IF code = 504 THEN "DeadlineExceededError"
    ELSE IF code >= 500 THEN "InternalServerError"
    ELSE "APIStatusError"

InitStatus ==
    /\ status_code \in StatusCodes
    /\ status_error = ""
    /\ again = NoOutcome
    /\ mode = "none"
    /\ tasks = <<>>
    /\ aclient = <<>>
    /\ project_id = PyNone
    /\ region = "us-central1"
    /\ access_token = PyNone
    /\ credentials = 0
    /\ creds = <<>>
    /\ ctor = [project_id |-> NOT_GIVEN, env_project_id |-> PyNone, credentials |-> 0]
    /\ loader_project = PyNone
    /\ loader_calls = 0
    /\ loader_fails = 0
    /\ refresher_calls = 0
    /\ refresher_fails = 0
    /\ ecalls = 0
    /\ last = NoResult
    /\ call = IdleCall
    /\ options = <<>>
    /\ dicts = <<>>
    /\ inp = 0
    /\ pre = <<>>
    /\ out = NoOutcome

\* the base client classifies a response whose status is an error status
MakeStatusErrorCall ==
    /\ status_error = ""
    /\ status_error' = MakeStatusError(status_code)
    /\ UNCHANGED <<status_code, again, mode, tasks, aclient>>
    /\ UNCHANGED clientVars
    /\ UNCHANGED rewriteVars

NextStatus == MakeStatusErrorCall

SpecStatus == InitStatus /\ [][NextStatus]_vars

\* the error kinds the classification table names one status code for
NamedStatus ==
    [c \in {400, 401, 403, 404, 409, 422, 429, 503, 504} |->
        CASE c = 400 -> "BadRequestError"
          [] c = 401 -> "AuthenticationError"
          [] c = 403 -> "PermissionDeniedError"
          [] c = 404 -> "NotFoundError"
          [] c = 409 -> "ConflictError"
          [] c = 422 -> "UnprocessableEntityError"
          [] c = 429 -> "RateLimitError"
          [] c = 503 -> "ServiceUnavailableError"
          [] c = 504 -> "DeadlineExceededError"]

\* C15: for every HTTP status code the classification returns exactly the
\* table's kind: the named kind for the nine named codes, the internal-server
\* error for every other code >= 500, the generic status error otherwise.
C15_StatusTable ==
    status_error # "" =>
        /\ status_code \in DOMAIN NamedStatus => status_error = NamedStatus[status_code]
        /\ (status_code \notin DOMAIN NamedStatus /\ status_code >= 500)
              => status_error = "InternalServerError"
        /\ (status_code \notin DOMAIN NamedStatus /\ status_code < 500)
              => status_error = "APIStatusError"
C15_Witness ==
    /\ status_code = 503
    /\ status_error = "ServiceUnavailableError"

----------------------------------------------------------------------------
(* _ensure_access_token statement by statement.  A call in progress is a    *)
(* task [pc, loaded, pid, target, res]: where it stands, the handle and the *)
(* project id load_auth returned to it, the handle it passed to             *)
(* refresh_auth, and what it returned or raised.  s is the client fields,   *)
(* the task and the collaborator invocations counted so far.                *)

ErrAssert == "AssertionError"

NoTask == [pc |-> "start", loaded |-> 0, pid |-> PyNone, target |-> 0, res |-> NoResult]

Finish(s, kind, v) ==
    [s EXCEPT !.task.pc = "done", !.task.res.kind = kind, !.task.res.v = v]

\* the next statement of the call
Step(s, e, lp) ==
    LET c == s.client
        k == s.task
    IN CASE k.pc = "start" ->
              IF HasStaticToken(c) THEN Finish(s, "returned", c.access_token.v)
              ELSE IF NeedsLoad(c) THEN [s EXCEPT !.task.pc = "loading"]
              ELSE [s EXCEPT !.task.pc = "check"]
         [] k.pc = "loading" ->
              IF ~e.load_ok
              THEN [Finish(s, "raised", ErrLoader) EXCEPT !.loads = @ + 1, !.fails = @ + 1]
              ELSE [s EXCEPT !.client.creds = Append(@, e.load_cred),
                             !.task.loaded = Len(c.creds) + 1,
                             !.task.pid = lp,
                             !.task.pc = "assign",
                             !.loads = @ + 1]
         [] k.pc = "assign" ->
              [s EXCEPT !.client.credentials = k.loaded, !.task.pc = "adopt"]
         [] k.pc = "adopt" ->
              [s EXCEPT !.client.project_id = AdoptProject(@, k.pid), !.task.pc = "check"]
         [] k.pc = "check" ->
              [s EXCEPT !.task.res.seen = <<c.creds[c.credentials]>>,
                        !.task.target = IF NeedsRefresh(c) THEN c.credentials ELSE 0,
                        !.task.pc = IF NeedsRefresh(c) THEN "refreshing" ELSE "verify"]
         [] k.pc = "refreshing" ->
              IF ~e.refresh_ok
              THEN [Finish(s, "raised", ErrRefresh) EXCEPT !.refreshes = @ + 1,
                                                          !.rfails = @ + 1]
              ELSE [s EXCEPT !.client.creds[k.target] =
                                 [token |-> e.refresh_token, expired |-> FALSE],
                             !.task.pc = "verify",
                             !.refreshes = @ + 1]
         [] k.pc = "verify" ->
              IF ~Truthy(c.creds[c.credentials].token) THEN Finish(s, "raised", ErrNoToken)
              ELSE [s EXCEPT !.task.pc = "ret"]
         [] k.pc = "ret" ->
              IF c.creds[c.credentials].token.t = "str"
              THEN Finish(s, "returned", c.creds[c.credentials].token.v)
              ELSE Finish(s, "raised", ErrAssert)
         [] OTHER -> s

\* where a coroutine is suspended: `await asyncify(load_auth)(...)` and
\* `await asyncify(refresh_auth)(...)`
AwaitPoints == {"loading", "refreshing"}

RECURSIVE RunToAwait(_, _, _)
RunToAwait(s, e, lp) ==
    IF s.task.pc \in AwaitPoints \cup {"done"} THEN s
    ELSE RunToAwait(Step(s, e, lp), e, lp)

\* what the event loop runs for a coroutine in one turn: the worker's
\* completion of the awaited collaborator, or the statements up to the next await
Resume(s, e, lp) ==
    IF s.task.pc \in AwaitPoints THEN Step(s, e, lp)
    ELSE RunToAwait(Step(s, e, lp), e, lp)

RECURSIVE RunAlone(_, _, _)
RunAlone(s, e, lp) ==
    IF s.task.pc = "done" THEN s ELSE RunAlone(Step(s, e, lp), e, lp)

Fresh(c) == [client |-> c, task |-> NoTask, loads |-> 0, fails |-> 0,
             refreshes |-> 0, rfails |-> 0]

\* mutant of AsyncEnsureAccessToken: the loader's project id is not adopted
AsyncEnsureAccessTokenNoAdopt(c, e, lp) ==
    LET s == RunAlone(Fresh(c), e, lp) IN
    Done([s.client EXCEPT !.project_id = c.project_id],
         s.task.res.kind, s.task.res.v, s.task.res.seen,
         <<s.loads, s.fails, s.refreshes, s.rfails>>)

\* AsyncAnthropicVertex._ensure_access_token, one whole call that no other
\* call overlaps
AsyncEnsureAccessToken(c, e, lp) ==
    LET s == RunAlone(Fresh(c), e, lp) IN
    Done(s.client, s.task.res.kind, s.task.res.v, s.task.res.seen,
         <<s.loads, s.fails, s.refreshes, s.rfails>>)

----------------------------------------------------------------------------
(* Overlapping _ensure_access_token calls on one client without a static    *)
(* token: threads interleave statement by statement, coroutines at their    *)
(* awaits.  The loader always succeeds and the refresher always leaves a    *)
(* token on the handle it is given.                                         *)

NumTasks == 2

ConcEnv == {e \in EnvChoices : e.load_ok /\ e.refresh_ok /\ e.refresh_token # PyNone}

InitConc ==
    /\ InitClient
    /\ access_token = PyNone
    /\ mode \in {"threads", "tasks"}
    /\ tasks = [t \in 1..NumTasks |-> NoTask]
    /\ again = NoOutcome
    /\ status_code = 0
    /\ status_error = ""
    /\ aclient = <<>>

ConcState(t) ==
    [client |-> ClientFields, task |-> tasks[t], loads |-> loader_calls,
     fails |-> loader_fails, refreshes |-> refresher_calls, rfails |-> refresher_fails]

ConcEffect(t, s) ==
    /\ credentials' = s.client.credentials
    /\ creds' = s.client.creds
    /\ project_id' = s.client.project_id
    /\ tasks' = [tasks EXCEPT ![t] = s.task]
    /\ loader_calls' = s.loads
    /\ loader_fails' = s.fails
    /\ refresher_calls' = s.refreshes
    /\ refresher_fails' = s.rfails
    /\ UNCHANGED <<access_token, region, ctor, loader_project, ecalls, last, call>>
    /\ UNCHANGED <<again, status_code, status_error, mode, aclient>>
    /\ UNCHANGED rewriteVars

\* a thread of the blocking client executes its next statement
ThreadStep(t) ==
    /\ mode = "threads"
    /\ tasks[t].pc # "done"
    /\ \E e \in ConcEnv : ConcEffect(t, Step(ConcState(t), e, loader_project))

\* the event loop of the non-blocking client gives a coroutine its turn
TaskStep(t) ==
    /\ mode = "tasks"
    /\ tasks[t].pc # "done"
    /\ \E e \in ConcEnv : ConcEffect(t, Resume(ConcState(t), e, loader_project))

\* the handle the client holds reaches its expiry while calls are in progress
ConcExpire ==
    /\ credentials # 0
    /\ ~creds[credentials].expired
    /\ creds' = [creds EXCEPT ![credentials].expired = TRUE]
    /\ UNCHANGED <<project_id, region, access_token, credentials, ctor,
                   loader_project, loader_calls, loader_fails, refresher_calls,
                   refresher_fails, ecalls, last, call>>
    /\ UNCHANGED auxVars
    /\ UNCHANGED rewriteVars

NextConc ==
    \/ \E t \in 1..NumTasks : ThreadStep(t)
    \/ \E t \in 1..NumTasks : TaskStep(t)
    \/ ConcExpire

SpecConc == InitConc /\ [][NextConc]_vars

\* C16: for every interleaving of overlapping calls on a client without a
\* static token, given a loader that always succeeds and a refresher that
\* always leaves a token, every finished call has returned a token.
C16_EveryCallReturnsToken ==
    \A t \in DOMAIN tasks :
        tasks[t].pc = "done" => tasks[t].res.kind = "returned"

\* C17: the lazy load takes effect at most once: a handle the client holds is
\* never replaced by a different one, and a project_id that was filled in
\* from the loader never changes.
C17_LoadTakesEffectOnce ==
    [][/\ credentials # 0 => credentials' = credentials
       /\ project_id # InitialProjectId(ctor.project_id, ctor.env_project_id)
             => project_id' = project_id]_vars

----------------------------------------------------------------------------
(* The blocking and the non-blocking client side by side: the same           *)
(* configuration, the same non-overlapping calls, the same collaborators.    *)

InitEquiv ==
    /\ InitClient
    /\ mode = "sequential"
    /\ aclient = [client |-> ClientFields, loads |-> 0, fails |-> 0, refreshes |-> 0,
                  rfails |-> 0, last |-> NoResult]
    /\ again = NoOutcome
    /\ status_code = 0
    /\ status_error = ""
    /\ tasks = <<>>

\* both clients are asked for a token; the collaborators behave alike for both
EnsureBoth ==
    /\ ecalls < MaxCalls
    /\ \E e \in EnvFor(ClientFields) :
          /\ EnsureEffect(EnsureAccessToken(ClientFields, e, loader_project))
          /\ LET r == AsyncEnsureAccessToken(aclient.client, e, loader_project) IN
             aclient' = [client |-> r.client,
                         loads |-> aclient.loads + r.loads,
                         fails |-> aclient.fails + r.fails,
                         refreshes |-> aclient.refreshes + r.refreshes,
                         rfails |-> aclient.rfails + r.rfails,
                         last |-> r.result]
    /\ UNCHANGED <<call, again, status_code, status_error, mode, tasks>>
    /\ UNCHANGED rewriteVars

\* the handles the two clients hold reach their expiry
ExpireBoth ==
    /\ credentials # 0
    /\ ~creds[credentials].expired
    /\ creds' = [creds EXCEPT ![credentials].expired = TRUE]
    /\ aclient' = IF aclient.client.credentials # 0
                  THEN [aclient EXCEPT !.client.creds[aclient.client.credentials].expired = TRUE]
                  ELSE aclient
    /\ UNCHANGED <<project_id, region, access_token, credentials, ctor,
                   loader_project, loader_calls, loader_fails, refresher_calls,
                   refresher_fails, ecalls, last, call>>
    /\ UNCHANGED <<again, status_code, status_error, mode, tasks>>
    /\ UNCHANGED rewriteVars

NextEquiv ==
    \/ EnsureBoth
    \/ ExpireBoth

SpecEquiv == InitEquiv /\ [][NextEquiv]_vars

\* C20: driven by the same non-overlapping calls against the same loader and
\* refresher behaviour, the non-blocking client has made the same loader and
\* refresher invocations, holds the same handle and project_id, and returned
\* the same token or raised the same error as the blocking client.
C20_SameStateMachine ==
    mode = "sequential" =>
        /\ aclient.client = ClientFields
        /\ aclient.loads = loader_calls
        /\ aclient.fails = loader_fails
        /\ aclient.refreshes = refresher_calls
        /\ aclient.rfails = refresher_fails
        /\ aclient.last = last
C20_Witness ==
    /\ mode = "sequential"
    /\ ecalls >= 2
    /\ aclient.loads = 1
    /\ aclient.refreshes >= 1
    /\ aclient.last.kind = "returned"
    /\ aclient.client.project_id = PyStr("pl")
    /\ aclient.last = last
====
